---- MODULE Spec2Model ----
(***************************************************************************)
(* pizza-cli: dough ingredient and fermentation timeline calculator.       *)
(*                                                                         *)
(* pizza-core (src/pizza-core/src/lib.rs) is a library of pure functions   *)
(* over f64; pizza-cli (src/pizza-cli/src/main.rs) is the command line     *)
(* front end: parse, profile merge, profile save, validation, computation, *)
(* printing.                                                               *)
(*                                                                         *)
(* Numbers.  An f64 is modelled by the real number it stands for, kept as  *)
(* a rational in lowest terms [n, d] with d > 0; +, -, *, / are exact.     *)
(* Rounding of the 53-bit mantissa and the infinities are outside the      *)
(* model: an equality of two f64 results below is the equality of the real *)
(* numbers the code computes.  NaN, which str::parse::<f64> reads from the *)
(* command line, is the value [n |-> 0, d |-> 0]: arithmetic on it gives   *)
(* NaN, every comparison with it is false, f64::max and f64::min skip it.  *)
(* powf is exact where its value is a multiple of 1/PowDen and rounded     *)
(* down to such a multiple elsewhere.                                      *)
(***************************************************************************)
EXTENDS Integers, Sequences, FiniteSets

----------------------------------------------------------------------------
(* f64 as exact rationals *)

Abs(x) == IF x < 0 THEN -x ELSE x

RECURSIVE GCD(_, _)
GCD(a, b) == IF b = 0 THEN Abs(a) ELSE GCD(b, a % b)

\* n/d in lowest terms with a positive denominator (d # 0)
Rat(n, d) ==
    LET g == GCD(Abs(n), Abs(d))
        s == IF d < 0 THEN -1 ELSE 1
    IN  [n |-> (s * n) \div g, d |-> (s * d) \div g]

Whole(k) == [n |-> k, d |-> 1]

\* f64::NAN
NaN == [n |-> 0, d |-> 0]
IsNaN(a) == a.d = 0

RNeg(a) == [n |-> -a.n, d |-> a.d]

RAdd(a, b) ==
    IF IsNaN(a) \/ IsNaN(b) THEN NaN
    ELSE LET g == GCD(a.d, b.d)
             fa == b.d \div g
             fb == a.d \div g
         IN  Rat(a.n * fa + b.n * fb, a.d * fa)

RSub(a, b) == RAdd(a, RNeg(b))

\* cross-cancelled before multiplying, so that the products stay small
RMul(a, b) ==
    IF IsNaN(a) \/ IsNaN(b) THEN NaN
    ELSE LET g1 == GCD(Abs(a.n), b.d)
             g2 == GCD(Abs(b.n), a.d)
         IN  Rat((a.n \div g1) * (b.n \div g2), (a.d \div g2) * (b.d \div g1))

\* a / b for b # 0
RDiv(a, b) == IF IsNaN(a) \/ IsNaN(b) THEN NaN ELSE RMul(a, Rat(b.d, b.n))

RLt(a, b) == ~IsNaN(a) /\ ~IsNaN(b) /\ RSub(a, b).n < 0
RLe(a, b) == ~IsNaN(a) /\ ~IsNaN(b) /\ RSub(a, b).n <= 0
RGt(a, b) == RLt(b, a)
RGe(a, b) == RLe(b, a)

\* f64::max, f64::min and f64::clamp on numbers
RMax(a, b) == IF IsNaN(a) THEN b ELSE IF IsNaN(b) THEN a
              ELSE IF RLt(a, b) THEN b ELSE a
RMin(a, b) == IF IsNaN(a) THEN b ELSE IF IsNaN(b) THEN a
              ELSE IF RLt(b, a) THEN b ELSE a
RClamp(v, lo, hi) == IF IsNaN(v) THEN v ELSE RMin(RMax(v, lo), hi)

RECURSIVE RPowInt(_, _)
RPowInt(x, k) == IF k = 0 THEN Whole(1) ELSE RMul(x, RPowInt(x, k - 1))

RECURSIVE IPow(_, _)
IPow(b, k) == IF k = 0 THEN 1 ELSE b * IPow(b, k - 1)

\* denominator of the grid on which irrational values of powf are kept:
\* the precision of the model, not a constant of the program
PowDen == 10

\* the largest r >= from with (r / PowDen)^q <= x
RECURSIVE RootUp(_, _, _)
RootUp(x, q, from) ==
    IF IPow(from + 1, q) * x.d > x.n * IPow(PowDen, q) THEN from
    ELSE RootUp(x, q, from + 1)

\* f64::powf(x, e) for x > 0 and a rational exponent e
powf(x, e) ==
    IF IsNaN(x) \/ IsNaN(e) THEN NaN
    ELSE LET p == Abs(e.n)
             y == RPowInt(x, p)
             r == IF e.d = 1 THEN y ELSE Rat(RootUp(y, e.d, 0), PowDen)
         IN  IF e.n >= 0 THEN r ELSE RDiv(Whole(1), r)

----------------------------------------------------------------------------
(* pizza-core *)

YeastKind == {"Dry", "Fresh"}

clamp_bug(v, lo, hi) == IF RLt(v, lo) THEN lo ELSE v

clamp(v, lo, hi) ==
    IF RLt(v, lo) THEN lo
    ELSE IF RGt(v, hi) THEN hi
    ELSE v

\* base * f_temp * f_w * f_time, the product estimate_yeast_percent_dry clamps
yeast_product(temp_c, w, eff_hours) ==
    LET base == Rat(35, 10000)
        f_temp == powf(Whole(2), RDiv(RSub(Whole(25), temp_c), Whole(10)))
        f_w == powf(Rat(w, 260), Rat(2, 10))
        f_time == RDiv(Whole(12), eff_hours)
    IN  RMul(RMul(RMul(base, f_temp), f_w), f_time)

estimate_yeast_percent_dry(temp_c, w, eff_hours) ==
    clamp(yeast_product(temp_c, w, eff_hours), Rat(5, 10000), Rat(15, 1000))

effective_hours_bug(total_hours, fridge_hours, fridge_factor) ==
    LET fh == RMin(RMax(fridge_hours, Whole(0)), RMax(total_hours, Whole(0)))
        rf == clamp(fridge_factor, Rat(5, 100), Rat(5, 10))
    IN  RAdd(total_hours, RMul(fh, rf))

effective_hours(total_hours, fridge_hours, fridge_factor) ==
    LET fh == RMin(RMax(fridge_hours, Whole(0)), RMax(total_hours, Whole(0)))
        rf == clamp(fridge_factor, Rat(5, 100), Rat(5, 10))
    IN  RAdd(RSub(total_hours, fh), RMul(fh, rf))

\* the yeast fraction of flour compute_ingredients works with
yeast_pct(input) ==
    LET dry_pct == estimate_yeast_percent_dry(input.temp_c, input.w,
                                              input.effective_hours)
    IN  IF input.yeast = "Dry" THEN dry_pct ELSE RMul(dry_pct, Whole(3))

\* 1.0 + h + salt_pct + yeast_pct, the divisor of the flour computation
divisor(input) ==
    RAdd(RAdd(RAdd(Whole(1), input.hydration),
              RDiv(input.salt_per_kg, Whole(1000))),
         yeast_pct(input))

compute_ingredients_bug(input) ==
    LET salt_pct == RDiv(input.salt_per_kg, Whole(1000))
        h == input.hydration
        y == yeast_pct(input)
        flour == RDiv(input.total_dough_g, RAdd(RAdd(Whole(1), h), salt_pct))
    IN  [flour_g |-> flour,
         water_g |-> RMul(flour, h),
         salt_g |-> RMul(flour, salt_pct),
         yeast_g |-> RMul(flour, y),
         starter_total_g |-> Whole(0)]

\* for inputs whose divisor is not 0
compute_ingredients(input) ==
    LET salt_pct == RDiv(input.salt_per_kg, Whole(1000))
        h == input.hydration
        y == yeast_pct(input)
        flour == RDiv(input.total_dough_g, divisor(input))
    IN  [flour_g |-> flour,
         water_g |-> RMul(flour, h),
         salt_g |-> RMul(flour, salt_pct),
         yeast_g |-> RMul(flour, y),
         starter_total_g |-> Whole(0)]

temp_adjust_ratio(temp_c, base, step, min, max) ==
    IF RGt(temp_c, Whole(25))
    THEN RMax(RSub(base, RMul(RSub(temp_c, Whole(25)), step)), min)
    ELSE IF RLt(temp_c, Whole(25))
    THEN RMin(RAdd(base, RMul(RSub(Whole(25), temp_c), step)), max)
    ELSE base

timeline_no_fridge_bug(total_hours, temp_c) ==
    LET bulk == RMul(total_hours, Rat(55, 100))
        proof == RSub(total_hours, bulk)
        hot == RGt(temp_c, Whole(25))
        delta == RClamp(RMul(RSub(temp_c, Whole(25)), Rat(5, 100)),
                        Whole(0), Whole(1))
    IN  [bulk_h |-> IF hot THEN RSub(bulk, delta) ELSE bulk,
         fridge_h |-> Whole(0),
         warmup_h |-> Whole(0),
         proof_h |-> proof]

timeline_no_fridge_donor_bug(total_hours, temp_c) ==
    LET bulk == RMul(total_hours, Rat(55, 100))
        proof == RSub(total_hours, bulk)
        delta == RClamp(RMul(IF RGt(temp_c, Whole(25))
                             THEN RSub(temp_c, Whole(25))
                             ELSE RSub(Whole(25), temp_c), Rat(5, 100)),
                        Whole(0), Whole(1))
        adjust == RMin(delta, RMul(bulk, Rat(2, 10)))
    IN  IF RGt(temp_c, Whole(25))
        THEN [bulk_h |-> RSub(bulk, adjust), fridge_h |-> Whole(0),
              warmup_h |-> Whole(0), proof_h |-> RAdd(proof, adjust)]
        ELSE [bulk_h |-> RAdd(bulk, adjust), fridge_h |-> Whole(0),
              warmup_h |-> Whole(0), proof_h |-> RSub(proof, adjust)]

timeline_no_fridge(total_hours, temp_c) ==
    LET bulk == RMul(total_hours, Rat(55, 100))
        proof == RSub(total_hours, bulk)
    IN  IF RGt(temp_c, Whole(25))
        THEN LET delta == RClamp(RMul(RSub(temp_c, Whole(25)), Rat(5, 100)),
                                 Whole(0), Whole(1))
                 adjust == RMin(delta, RMul(bulk, Rat(2, 10)))
             IN  [bulk_h |-> RSub(bulk, adjust),
                  fridge_h |-> Whole(0),
                  warmup_h |-> Whole(0),
                  proof_h |-> RAdd(proof, adjust)]
        ELSE IF RLt(temp_c, Whole(25))
        THEN LET delta == RClamp(RMul(RSub(Whole(25), temp_c), Rat(5, 100)),
                                 Whole(0), Whole(1))
                 adjust == RMin(delta, RMul(proof, Rat(2, 10)))
             IN  [bulk_h |-> RAdd(bulk, adjust),
                  fridge_h |-> Whole(0),
                  warmup_h |-> Whole(0),
                  proof_h |-> RSub(proof, adjust)]
        ELSE [bulk_h |-> bulk,
              fridge_h |-> Whole(0),
              warmup_h |-> Whole(0),
              proof_h |-> proof]

timeline_with_fridge_bug(total_hours, temp_c, fridge_hours, warmup_hours) ==
    LET remaining == RSub(RSub(total_hours, fridge_hours), warmup_hours)
        bulk_ratio == temp_adjust_ratio(temp_c, Rat(35, 100), Rat(1, 100),
                                        Rat(20, 100), Rat(60, 100))
        bulk == RMul(remaining, bulk_ratio)
        proof == RSub(remaining, bulk)
    IN  [bulk_h |-> bulk,
         fridge_h |-> RMax(fridge_hours, Whole(0)),
         warmup_h |-> RMax(warmup_hours, Whole(0)),
         proof_h |-> proof]

timeline_with_fridge(total_hours, temp_c, fridge_hours, warmup_hours) ==
    LET remaining == RMax(RSub(RSub(total_hours, fridge_hours), warmup_hours),
                          Whole(0))
        bulk_ratio == temp_adjust_ratio(temp_c, Rat(35, 100), Rat(1, 100),
                                        Rat(20, 100), Rat(60, 100))
        bulk == RMul(remaining, bulk_ratio)
        proof == RSub(remaining, bulk)
    IN  [bulk_h |-> bulk,
         fridge_h |-> RMax(fridge_hours, Whole(0)),
         warmup_h |-> RMax(warmup_hours, Whole(0)),
         proof_h |-> proof]

----------------------------------------------------------------------------
(* bounds of the inputs *)

MaxTotalHalfHours == 28
MaxFridgeHours == 5
MaxWarmupHours == 3
MaxTempStep == 10
MaxBalls == 2

TotalHoursSet == {Rat(k, 2) : k \in -2..MaxTotalHalfHours}
FridgeHoursSet == {Whole(k) : k \in -1..MaxFridgeHours}
WarmupHoursSet == {Whole(k) : k \in -1..MaxWarmupHours}
\* 0, 5, ..., 50 degrees C
TempSet == {Whole(5 * k) : k \in 0..MaxTempStep}
\* clap admits 200..=450
WSet == {200, 260, 450}
FridgeFactorSet == {Rat(1, 100), Rat(5, 100), Rat(25, 100), Rat(5, 10), Rat(9, 10)}
EffHoursSet == {Whole(1), Rat(41, 5), Whole(11), Whole(48)}
HydrationSet == {Rat(55, 100), Rat(75, 100), Rat(85, 100)}
\* a negative salt_per_kg is accepted by the library and by the command line
SaltSet == {Whole(-2000), Whole(0), Whole(20)}
DoughSet == {Whole(280 * k) : k \in -1..MaxBalls}

----------------------------------------------------------------------------
(* pizza-cli: formatting *)

\* floor of a number
RFloor(x) == x.n \div x.d

\* f64::round: to the nearest integer, halves away from zero
round(x) ==
    IF x.n >= 0 THEN RFloor(RAdd(x, Rat(1, 2)))
    ELSE -RFloor(RAdd(RNeg(x), Rat(1, 2)))

\* format!("{:.k}", x): k decimals, halves to the even digit; the number
\* printed ("NaN" for NaN)
FmtFixed(x, k) ==
    IF IsNaN(x) THEN NaN
    ELSE LET scale == IPow(10, k)
             t == RMul(x, Whole(scale))
             f == RFloor(t)
             frac == RSub(t, Whole(f))
             r == IF RLt(frac, Rat(1, 2)) THEN f
                  ELSE IF RGt(frac, Rat(1, 2)) THEN f + 1
                  ELSE IF f % 2 = 0 THEN f ELSE f + 1
         IN  Rat(r, scale)

\* the number fmt_g prints and the count of decimals it prints it with; for
\* NaN the comparison with 1e-9 is false and "{:.1} g" prints it
fmt_g(x) ==
    IF IsNaN(x) THEN [g |-> NaN, decimals |-> 1]
    ELSE LET v == Rat(round(RMul(x, Whole(10))), 10)
         IN  IF v.d = 1 THEN [g |-> FmtFixed(v, 0), decimals |-> 0]
             ELSE [g |-> FmtFixed(v, 1), decimals |-> 1]

----------------------------------------------------------------------------
(* pizza-cli: arguments and profile.  An Option is a sequence of length 0  *)
(* (None) or 1 (Some).                                                     *)

None == << >>
Some(v) == <<v>>
IsSome(o) == o # << >>
UnwrapOr(o, dflt) == IF o = << >> THEN dflt ELSE o[1]

\* the command line with no option on it
NoOptions ==
    [w |-> None, temp |-> None, yeast |-> None, hydration |-> None,
     salt_per_kg |-> None, ball_weight |-> None, balls |-> None,
     total_hours |-> None, fridge_hours |-> None, warmup_hours |-> None,
     fridge_factor |-> None, start |-> None, profile |-> None,
     save_profile |-> None]

\* Args::parse / Args::parse_from: --w is required and must be in 200..=450,
\* every other option has its default_value_t
ArgsParse(a) ==
    IF a.w = None \/ a.w[1] < 200 \/ a.w[1] > 450
    THEN [ok |-> FALSE]
    ELSE [ok |-> TRUE,
          args |-> [w |-> a.w[1],
                    temp |-> UnwrapOr(a.temp, Whole(25)),
                    yeast |-> UnwrapOr(a.yeast, "Dry"),
                    hydration |-> UnwrapOr(a.hydration, Rat(75, 100)),
                    salt_per_kg |-> UnwrapOr(a.salt_per_kg, Whole(20)),
                    ball_weight |-> UnwrapOr(a.ball_weight, Whole(280)),
                    balls |-> UnwrapOr(a.balls, 2),
                    total_hours |-> UnwrapOr(a.total_hours, Whole(11)),
                    fridge_hours |-> UnwrapOr(a.fridge_hours, Whole(0)),
                    warmup_hours |-> UnwrapOr(a.warmup_hours, Whole(3)),
                    fridge_factor |-> UnwrapOr(a.fridge_factor, Rat(25, 100)),
                    start |-> a.start,
                    profile |-> a.profile,
                    save_profile |-> a.save_profile]]

\* impl From<&Args> for Profile
ProfileFrom(a) ==
    [w |-> a.w, temp |-> a.temp, yeast |-> a.yeast, hydration |-> a.hydration,
     salt_per_kg |-> a.salt_per_kg, ball_weight |-> a.ball_weight,
     balls |-> a.balls, total_hours |-> a.total_hours,
     fridge_hours |-> a.fridge_hours, warmup_hours |-> a.warmup_hours,
     fridge_factor |-> a.fridge_factor, start |-> a.start]

\* the macro take!: the profile's value where the argument equals its default
take(a, def, p) == IF a = def THEN p ELSE a

\* the assignments of main that follow the defaults snapshot
MergeProfile(a, def, p) ==
    [w |-> take(a.w, def.w, p.w),
     temp |-> take(a.temp, def.temp, p.temp),
     yeast |-> IF a.yeast = "Dry" /\ p.yeast # "Dry" THEN p.yeast ELSE a.yeast,
     hydration |-> take(a.hydration, def.hydration, p.hydration),
     salt_per_kg |-> take(a.salt_per_kg, def.salt_per_kg, p.salt_per_kg),
     ball_weight |-> take(a.ball_weight, def.ball_weight, p.ball_weight),
     balls |-> take(a.balls, def.balls, p.balls),
     total_hours |-> take(a.total_hours, def.total_hours, p.total_hours),
     fridge_hours |-> take(a.fridge_hours, def.fridge_hours, p.fridge_hours),
     warmup_hours |-> take(a.warmup_hours, def.warmup_hours, p.warmup_hours),
     fridge_factor |-> take(a.fridge_factor, def.fridge_factor, p.fridge_factor),
     start |-> IF a.start = None THEN p.start ELSE a.start,
     profile |-> a.profile,
     save_profile |-> a.save_profile]

\* the messages of main's four validations, in the order of the checks
MsgHydration == "Hydration must be between 0.55 and 0.85"
MsgTotalHours == "total-hours must be > 0"
MsgNegativeHours == "fridge-hours and warmup-hours must be >= 0"
MsgFridgeSum == "Sum of fridge-hours and warmup-hours must be < total-hours"
MsgUsage == "error: the following required arguments were not provided"
MsgReadProfile == "Failed to read profile"
MsgInvalidProfile == "Invalid profile JSON"
MsgSaveProfile == "Failed to save profile"

\* the message of the first validation that fails, None when all pass
ValidationError(a) ==
    IF RLt(a.hydration, Rat(55, 100)) \/ RGt(a.hydration, Rat(85, 100))
    THEN Some(MsgHydration)
    ELSE IF RLe(a.total_hours, Whole(0))
    THEN Some(MsgTotalHours)
    ELSE IF RLt(a.fridge_hours, Whole(0)) \/ RLt(a.warmup_hours, Whole(0))
    THEN Some(MsgNegativeHours)
    ELSE IF /\ RGt(a.fridge_hours, Whole(0))
            /\ RGe(RAdd(a.fridge_hours, a.warmup_hours), a.total_hours)
    THEN Some(MsgFridgeSum)
    ELSE None

\* the IngredientsInput main builds
IngredientsInputOf(a) ==
    [total_dough_g |-> RMul(Whole(a.balls), a.ball_weight),
     hydration |-> a.hydration,
     salt_per_kg |-> a.salt_per_kg,
     yeast |-> a.yeast,
     temp_c |-> a.temp,
     w |-> a.w,
     effective_hours |-> effective_hours(a.total_hours, a.fridge_hours,
                                         a.fridge_factor)]

\* the Timeline main asks for
TimelineOf(a) ==
    IF RGt(a.fridge_hours, Whole(0))
    THEN timeline_with_fridge(a.total_hours, a.temp, a.fridge_hours,
                              a.warmup_hours)
    ELSE timeline_no_fridge(a.total_hours, a.temp)

\* to_min
\* NaN as i64 is 0
to_min(h) == IF IsNaN(h) THEN 0 ELSE round(RMul(h, Whole(60)))

\* minutes after the start at which the phases end; None for a phase left out
PhaseEnds(a, t) ==
    LET bulk_end == to_min(t.bulk_h)
        fridge_end == IF RGt(t.fridge_h, Whole(0))
                      THEN bulk_end + to_min(t.fridge_h) ELSE bulk_end
        warmup_end == IF RGt(t.warmup_h, Whole(0))
                      THEN fridge_end + to_min(t.warmup_h) ELSE fridge_end
    IN  [bulk |-> Some(bulk_end),
         fridge |-> IF RGt(t.fridge_h, Whole(0)) THEN Some(fridge_end) ELSE None,
         warmup |-> IF RGt(t.warmup_h, Whole(0)) THEN Some(warmup_end) ELSE None,
         proof |-> Some(warmup_end + to_min(t.proof_h))]

\* what main prints: the ingredients table, the timeline, the notes
Report(a, i, t) ==
    LET e == PhaseEnds(a, t)
        table == [line |-> "ingredients",
                  balls |-> a.balls,
                  ball_weight |-> FmtFixed(a.ball_weight, 0),
                  flour |-> fmt_g(i.flour_g),
                  water |-> fmt_g(i.water_g),
                  salt |-> fmt_g(i.salt_g),
                  yeast |-> fmt_g(i.yeast_g),
                  yeast_row |-> IF a.yeast = "Dry" THEN "Dry yeast"
                                ELSE "Fresh yeast"]
        bulk == [line |-> "bulk", h |-> FmtFixed(t.bulk_h, 1), end |-> e.bulk]
        fridge == [line |-> "fridge", h |-> FmtFixed(t.fridge_h, 1),
                   end |-> e.fridge]
        warmup == [line |-> "warmup", h |-> FmtFixed(t.warmup_h, 1),
                   end |-> e.warmup]
        proof == [line |-> "proof", h |-> FmtFixed(t.proof_h, 1),
                  end |-> e.proof]
        total == [line |-> "total",
                  h |-> FmtFixed(RAdd(RAdd(RAdd(t.bulk_h, t.fridge_h),
                                           t.warmup_h), t.proof_h), 1),
                  end |-> None]
        notes == [line |-> "notes"]
    IN  <<table, bulk>>
        \o (IF RGt(t.fridge_h, Whole(0)) THEN <<fridge, warmup>> ELSE << >>)
        \o <<proof, total, notes>>

----------------------------------------------------------------------------
(* state *)

VARIABLES
    call,          \* the library call in progress, for callers of pizza-core
    pc,            \* where main is
    argv,          \* the options on the command line
    profile_file,  \* what is at the path of --profile
    write_ok,      \* whether fs::write to the path of --save-profile succeeds
    args,          \* main's args
    saved,         \* the Profile written at the path of --save-profile
    stdout,        \* what was printed
    stderr,        \* the messages of eprintln!
    exit_code,     \* the exit status, None while running
    ing_in,        \* the IngredientsInput given to compute_ingredients
    ing,           \* its Ingredients
    tl,            \* the Timeline
    core_calls     \* the functions of pizza-core main has called

cli_vars == <<pc, argv, profile_file, write_ok, args, saved, stdout, stderr,
              exit_code, ing_in, ing, tl, core_calls>>

vars == <<call, cli_vars>>

NoCall == [fn |-> "none"]

\* main's variables before main has run
CliIdle ==
    /\ args = None
    /\ saved = None
    /\ stdout = << >>
    /\ stderr = << >>
    /\ exit_code = None
    /\ ing_in = None
    /\ ing = None
    /\ tl = None
    /\ core_calls = << >>

----------------------------------------------------------------------------
(* a caller of the library: one call of a public function at a time *)

Init ==
    /\ call = NoCall
    /\ pc = "off"
    /\ argv = NoOptions
    /\ profile_file = [kind |-> "missing"]
    /\ write_ok = TRUE
    /\ CliIdle

CallEffectiveHours ==
    /\ call = NoCall
    /\ \E t \in TotalHoursSet, f \in FridgeHoursSet, ff \in FridgeFactorSet :
        call' = [fn |-> "effective_hours",
                 total_hours |-> t, fridge_hours |-> f, fridge_factor |-> ff,
                 out |-> effective_hours(t, f, ff)]
    /\ UNCHANGED cli_vars

CallEstimateYeast ==
    /\ call = NoCall
    /\ \E t \in TempSet, w \in WSet, e \in EffHoursSet :
        call' = [fn |-> "estimate_yeast_percent_dry",
                 temp_c |-> t, w |-> w, effective_hours |-> e,
                 out |-> estimate_yeast_percent_dry(t, w, e)]
    /\ UNCHANGED cli_vars

CallComputeIngredients ==
    /\ call = NoCall
    /\ \E g \in DoughSet, h \in HydrationSet, s \in SaltSet, y \in YeastKind,
          t \in TempSet, w \in WSet, e \in EffHoursSet :
        LET input == [total_dough_g |-> g, hydration |-> h, salt_per_kg |-> s,
                      yeast |-> y, temp_c |-> t, w |-> w, effective_hours |-> e]
        IN  call' = [fn |-> "compute_ingredients", input |-> input,
                     out |-> compute_ingredients(input)]
    /\ UNCHANGED cli_vars

CallTimelineNoFridge ==
    /\ call = NoCall
    /\ \E t \in TotalHoursSet, c \in TempSet :
        call' = [fn |-> "timeline_no_fridge", total_hours |-> t, temp_c |-> c,
                 out |-> timeline_no_fridge(t, c)]
    /\ UNCHANGED cli_vars

CallTimelineWithFridge ==
    /\ call = NoCall
    /\ \E t \in TotalHoursSet, c \in TempSet, f \in FridgeHoursSet,
          u \in WarmupHoursSet :
        call' = [fn |-> "timeline_with_fridge", total_hours |-> t, temp_c |-> c,
                 fridge_hours |-> f, warmup_hours |-> u,
                 out |-> timeline_with_fridge(t, c, f, u)]
    /\ UNCHANGED cli_vars

\* the call returns; the caller may call again
Return ==
    /\ call # NoCall
    /\ call' = NoCall
    /\ UNCHANGED cli_vars

Next ==
    \/ Return
    \/ CallEffectiveHours
    \/ CallEstimateYeast
    \/ CallComputeIngredients
    \/ CallTimelineNoFridge
    \/ CallTimelineWithFridge

Spec == Init /\ [][Next]_vars

----------------------------------------------------------------------------
(* one run of pizza-cli: main, from the command line to the exit *)

\* a profile file that parses
StoredProfile ==
    [w |-> 300, temp |-> Whole(20), yeast |-> "Fresh", hydration |-> Rat(6, 10),
     salt_per_kg |-> Whole(25), ball_weight |-> Whole(250), balls |-> 4,
     total_hours |-> Whole(24), fridge_hours |-> Whole(8),
     warmup_hours |-> Whole(2), fridge_factor |-> Rat(25, 100),
     start |-> Some("18:00")]

MaxCliTotalHours == 24

\* the command lines of the runs
ArgvSet ==
    {NoOptions} \cup
    [w : {Some(260)},
     temp : {None, Some(Whole(35))},
     yeast : {None, Some("Fresh")},
     hydration : {None, Some(Rat(5, 10)), Some(Rat(6, 10))},
     salt_per_kg : {None, Some(Whole(-2000))},
     ball_weight : {None},
     balls : {None},
     total_hours : {None, Some(Whole(0)), Some(Whole(12)),
                    Some(Whole(MaxCliTotalHours)), Some(NaN)},
     fridge_hours : {None, Some(Whole(-1)), Some(Whole(4)), Some(Whole(12))},
     warmup_hours : {None, Some(Whole(-1)), Some(Whole(8))},
     fridge_factor : {None},
     start : {None},
     profile : {None, Some("profile.json")},
     save_profile : {None, Some("saved.json")}]

InitCli ==
    /\ call = NoCall
    /\ pc = "parse"
    /\ argv \in ArgvSet
    /\ profile_file \in
         IF IsSome(argv.profile)
         THEN {[kind |-> "missing"], [kind |-> "invalid"],
               [kind |-> "json", profile |-> StoredProfile]}
         ELSE {[kind |-> "missing"]}
    /\ write_ok \in IF IsSome(argv.save_profile) THEN BOOLEAN ELSE {TRUE}
    /\ CliIdle

\* process::exit(code) after eprintln!(msg)
Fail(msg, code) ==
    /\ stderr' = Append(stderr, msg)
    /\ exit_code' = Some(code)
    /\ pc' = "exit"

\* let mut args = Args::parse();
Parse ==
    /\ pc = "parse"
    /\ LET r == ArgsParse(argv)
       IN  IF r.ok
           THEN /\ args' = Some(r.args)
                /\ pc' = "profile"
                /\ UNCHANGED <<stderr, exit_code>>
           ELSE /\ Fail(MsgUsage, 2)
                /\ UNCHANGED args
    /\ UNCHANGED <<call, argv, profile_file, write_ok, saved, stdout, ing_in,
                   ing, tl, core_calls>>

\* if let Some(path) = &args.profile { ... }
LoadProfile ==
    /\ pc = "profile"
    /\ LET a == args[1]
           def == ArgsParse(NoOptions)
       IN  IF a.profile = None
           THEN /\ pc' = "save"
                /\ UNCHANGED <<args, stderr, exit_code>>
           ELSE IF profile_file.kind = "missing"
           THEN Fail(MsgReadProfile, 1) /\ UNCHANGED args
           ELSE IF profile_file.kind = "invalid"
           THEN Fail(MsgInvalidProfile, 1) /\ UNCHANGED args
           ELSE IF ~def.ok
           THEN Fail(MsgUsage, 2) /\ UNCHANGED args
           ELSE /\ args' = Some(MergeProfile(a, def.args, profile_file.profile))
                /\ pc' = "save"
                /\ UNCHANGED <<stderr, exit_code>>
    /\ UNCHANGED <<call, argv, profile_file, write_ok, saved, stdout, ing_in,
                   ing, tl, core_calls>>

\* if let Some(path) = &args.save_profile { ... }
SaveProfile ==
    /\ pc = "save"
    /\ LET a == args[1]
       IN  IF a.save_profile = None
           THEN /\ pc' = "validate"
                /\ UNCHANGED <<saved, stdout, stderr, exit_code>>
           ELSE IF ~write_ok
           THEN Fail(MsgSaveProfile, 1) /\ UNCHANGED <<saved, stdout>>
           ELSE /\ saved' = Some(ProfileFrom(a))
                /\ stdout' = Append(stdout, [line |-> "Profile saved to"])
                /\ pc' = "validate"
                /\ UNCHANGED <<stderr, exit_code>>
    /\ UNCHANGED <<call, argv, profile_file, write_ok, args, ing_in, ing, tl,
                   core_calls>>

\* // Validations
Validate ==
    /\ pc = "validate"
    /\ LET e == ValidationError(args[1])
       IN  IF IsSome(e)
           THEN Fail(e[1], 1)
           ELSE /\ pc' = "compute"
                /\ UNCHANGED <<stderr, exit_code>>
    /\ UNCHANGED <<call, argv, profile_file, write_ok, args, saved, stdout,
                   ing_in, ing, tl, core_calls>>

\* // Totals, // Effective hours, // Ingredients, // Timeline
Compute ==
    /\ pc = "compute"
    /\ LET a == args[1]
           input == IngredientsInputOf(a)
       IN  /\ ing_in' = Some(input)
           /\ ing' = Some(compute_ingredients(input))
           /\ tl' = Some(TimelineOf(a))
           /\ core_calls' = <<"effective_hours", "compute_ingredients",
                              IF RGt(a.fridge_hours, Whole(0))
                              THEN "timeline_with_fridge"
                              ELSE "timeline_no_fridge">>
    /\ pc' = "print"
    /\ UNCHANGED <<call, argv, profile_file, write_ok, args, saved, stdout,
                   stderr, exit_code>>

\* the tables, the timeline, the notes, and the second save of the profile
PrintReport ==
    /\ pc = "print"
    /\ LET a == args[1]
       IN  /\ stdout' = stdout \o Report(a, ing[1], tl[1])
           /\ saved' = IF IsSome(a.save_profile) /\ write_ok
                       THEN Some(ProfileFrom(a)) ELSE saved
    /\ exit_code' = Some(0)
    /\ pc' = "done"
    /\ UNCHANGED <<call, argv, profile_file, write_ok, args, stderr, ing_in,
                   ing, tl, core_calls>>

NextCli ==
    \/ Parse
    \/ LoadProfile
    \/ SaveProfile
    \/ Validate
    \/ Compute
    \/ PrintReport

SpecCli == InitCli /\ [][NextCli]_vars

----------------------------------------------------------------------------
(* properties of pizza-core, over the calls of Spec *)

TimelineSum(t) == RAdd(RAdd(RAdd(t.bulk_h, t.fridge_h), t.warmup_h), t.proof_h)

NonNegative(t) ==
    /\ RGe(t.bulk_h, Whole(0))
    /\ RGe(t.fridge_h, Whole(0))
    /\ RGe(t.warmup_h, Whole(0))
    /\ RGe(t.proof_h, Whole(0))

\* C1: whenever fridge_hours + warmup_hours < total_hours, the Timeline of
\* timeline_with_fridge has bulk_h + fridge_h + warmup_h + proof_h = total_hours.
C1_WithFridgeSumsToTotal ==
    (/\ call.fn = "timeline_with_fridge"
     /\ RLt(RAdd(call.fridge_hours, call.warmup_hours), call.total_hours))
    => TimelineSum(call.out) = call.total_hours

\* C2: for total_hours > 0 and every temp_c, the Timeline of timeline_no_fridge
\* has bulk_h + proof_h = total_hours, fridge_h = 0 and warmup_h = 0.
C2_NoFridgeSumsToTotal ==
    (call.fn = "timeline_no_fridge" /\ RGt(call.total_hours, Whole(0)))
    => /\ RAdd(call.out.bulk_h, call.out.proof_h) = call.total_hours
       /\ call.out.fridge_h = Whole(0)
       /\ call.out.warmup_h = Whole(0)

\* a hot call whose bulk was shortened
C2_Witness ==
    /\ call.fn = "timeline_no_fridge"
    /\ RGt(call.total_hours, Whole(0))
    /\ RGt(call.temp_c, Whole(25))
    /\ RLt(call.out.bulk_h, RMul(call.total_hours, Rat(55, 100)))

\* C3: for total_dough_g > 0, compute_ingredients returns flour, water, salt and
\* yeast that add up to total_dough_g, with water = flour * hydration,
\* salt = flour * salt_per_kg / 1000, yeast = flour * yeast fraction, starter = 0.
C3_IngredientsSumToDough ==
    (call.fn = "compute_ingredients" /\ RGt(call.input.total_dough_g, Whole(0)))
    => LET o == call.out
           i == call.input
           dry == estimate_yeast_percent_dry(i.temp_c, i.w, i.effective_hours)
           frac == IF i.yeast = "Fresh" THEN RMul(Whole(3), dry) ELSE dry
       IN  /\ RAdd(RAdd(RAdd(o.flour_g, o.water_g), o.salt_g), o.yeast_g)
                = i.total_dough_g
           /\ o.water_g = RMul(o.flour_g, i.hydration)
           /\ o.salt_g = RMul(o.flour_g, RDiv(i.salt_per_kg, Whole(1000)))
           /\ o.yeast_g = RMul(o.flour_g, frac)
           /\ o.starter_total_g = Whole(0)

\* a fresh-yeast dough with salt, whose four masses are all positive
C3_Witness ==
    /\ call.fn = "compute_ingredients"
    /\ RGt(call.input.total_dough_g, Whole(0))
    /\ call.input.yeast = "Fresh"
    /\ RGt(call.out.salt_g, Whole(0))
    /\ RGt(call.out.yeast_g, Whole(0))
    /\ RLt(call.out.flour_g, call.input.total_dough_g)

InEffectiveHoursDomain(t, f, ff) ==
    /\ RGe(t, Whole(0))
    /\ RGe(f, Whole(0)) /\ RLe(f, t)
    /\ RGe(ff, Rat(5, 100)) /\ RLe(ff, Rat(5, 10))

\* C4: for total_hours >= 0, fridge_hours in [0, total_hours] and fridge_factor
\* in [0.05, 0.5], effective_hours is in [total_hours * fridge_factor,
\* total_hours], and a longer fridge time never gives a larger result.
C4_EffectiveHoursRange ==
    (/\ call.fn = "effective_hours"
     /\ InEffectiveHoursDomain(call.total_hours, call.fridge_hours,
                               call.fridge_factor))
    => /\ RGe(call.out, RMul(call.total_hours, call.fridge_factor))
       /\ RLe(call.out, call.total_hours)
       /\ \A f2 \in FridgeHoursSet :
            (RGe(f2, call.fridge_hours) /\ RLe(f2, call.total_hours))
            => RLe(effective_hours(call.total_hours, f2, call.fridge_factor),
                   call.out)

\* part of the time in the fridge: the result is strictly inside the interval
C4_Witness ==
    /\ call.fn = "effective_hours"
    /\ InEffectiveHoursDomain(call.total_hours, call.fridge_hours,
                              call.fridge_factor)
    /\ RGt(call.fridge_hours, Whole(0))
    /\ RLt(call.fridge_hours, call.total_hours)
    /\ RLt(call.out, call.total_hours)
    /\ RGt(call.out, RMul(call.total_hours, call.fridge_factor))

\* C5: for every temp_c, w in [200, 450] and effective_hours > 0,
\* estimate_yeast_percent_dry is in [0.0005, 0.015], whatever the product is.
C5_YeastPercentBounds ==
    (/\ call.fn = "estimate_yeast_percent_dry"
     /\ call.w >= 200 /\ call.w <= 450
     /\ RGt(call.effective_hours, Whole(0)))
    => /\ RGe(call.out, Rat(5, 10000))
       /\ RLe(call.out, Rat(15, 1000))

\* the product is above 1.5% and the result is 1.5%
C5_Witness ==
    /\ call.fn = "estimate_yeast_percent_dry"
    /\ RGt(yeast_product(call.temp_c, call.w, call.effective_hours),
           Rat(15, 1000))
    /\ call.out = Rat(15, 1000)

\* the product is below 0.05% and the result is 0.05%
C5_ReachesLowerClamp ==
    /\ call.fn = "estimate_yeast_percent_dry"
    /\ RLt(yeast_product(call.temp_c, call.w, call.effective_hours),
           Rat(5, 10000))
    /\ call.out = Rat(5, 10000)

\* C9: every Timeline of timeline_no_fridge and of timeline_with_fridge has
\* bulk_h, fridge_h, warmup_h and proof_h >= 0, for every input.
C9_TimelineNonNegative ==
    call.fn \in {"timeline_no_fridge", "timeline_with_fridge"}
    => NonNegative(call.out)

\* C9 as amended: every Timeline of timeline_with_fridge, and every Timeline of
\* timeline_no_fridge for total_hours >= 0, has its four durations >= 0.
C9_TimelineNonNegativeAmended ==
    (\/ call.fn = "timeline_with_fridge"
     \/ call.fn = "timeline_no_fridge" /\ RGe(call.total_hours, Whole(0)))
    => NonNegative(call.out)

\* fridge and warmup longer than the total: remaining is floored at 0
C9_Witness ==
    /\ call.fn = "timeline_with_fridge"
    /\ RGt(RAdd(call.fridge_hours, call.warmup_hours), call.total_hours)
    /\ call.out.bulk_h = Whole(0)
    /\ call.out.proof_h = Whole(0)
    /\ RGt(call.out.fridge_h, Whole(0))

\* min(0.05 * |temp_c - 25|, 1.0, 20% of the donor's baseline)
ExpectedShift(total_hours, temp_c) ==
    LET dev == IF RGt(temp_c, Whole(25)) THEN RSub(temp_c, Whole(25))
               ELSE RSub(Whole(25), temp_c)
        donor == IF RGt(temp_c, Whole(25)) THEN RMul(Rat(55, 100), total_hours)
                 ELSE RMul(Rat(45, 100), total_hours)
    IN  RMin(RMin(RMul(Rat(5, 100), dev), Whole(1)), RMul(Rat(2, 10), donor))

\* C10: in timeline_no_fridge with total_hours > 0 the shift away from 55%/45%
\* is min(0.05 * |temp_c - 25|, 1.0, 20% of the donor's baseline): from bulk
\* to proof above 25 degrees, from proof to bulk below, none at 25.
C10_NoFridgeShift ==
    (call.fn = "timeline_no_fridge" /\ RGt(call.total_hours, Whole(0)))
    => LET shift == ExpectedShift(call.total_hours, call.temp_c)
           bulk0 == RMul(Rat(55, 100), call.total_hours)
           proof0 == RMul(Rat(45, 100), call.total_hours)
       IN  /\ RLe(shift, Whole(1))
           /\ IF RGt(call.temp_c, Whole(25))
              THEN /\ call.out.bulk_h = RSub(bulk0, shift)
                   /\ call.out.proof_h = RAdd(proof0, shift)
                   /\ RLe(shift, RMul(Rat(2, 10), bulk0))
              ELSE IF RLt(call.temp_c, Whole(25))
              THEN /\ call.out.bulk_h = RAdd(bulk0, shift)
                   /\ call.out.proof_h = RSub(proof0, shift)
                   /\ RLe(shift, RMul(Rat(2, 10), proof0))
              ELSE /\ call.out.bulk_h = bulk0
                   /\ call.out.proof_h = proof0

\* a hot call in which the cap of one hour is what limits the shift
C10_ReachesHourCap ==
    /\ call.fn = "timeline_no_fridge"
    /\ RGt(call.temp_c, Whole(45))
    /\ RGt(RMul(Rat(2, 10), RMul(Rat(55, 100), call.total_hours)), Whole(1))
    /\ call.out.bulk_h = RSub(RMul(Rat(55, 100), call.total_hours), Whole(1))

\* a cold call in which 20% of the proof is what limits the shift
C10_Witness ==
    /\ call.fn = "timeline_no_fridge"
    /\ RGt(call.total_hours, Whole(0))
    /\ RLt(call.temp_c, Whole(25))
    /\ RLt(RMul(Rat(2, 10), RMul(Rat(45, 100), call.total_hours)),
           RMin(RMul(Rat(5, 100), RSub(Whole(25), call.temp_c)), Whole(1)))
    /\ call.out.bulk_h
         = RAdd(RMul(Rat(55, 100), call.total_hours),
                RMul(Rat(2, 10), RMul(Rat(45, 100), call.total_hours)))

----------------------------------------------------------------------------
(* properties of pizza-cli, over the runs of SpecCli *)

ValidationMessages == {MsgHydration, MsgTotalHours, MsgNegativeHours, MsgFridgeSum}

\* the run ended on one of main's four validations
ValidationFailed ==
    /\ pc = "exit"
    /\ stderr # << >>
    /\ stderr[Len(stderr)] \in ValidationMessages

\* C6: a run in which a validation fails exits non-zero with an error message
\* and no partial output: nothing on standard output, no profile file written,
\* no function of the core called.
C6_ValidationFailureLeavesNoOutput ==
    ValidationFailed
    => /\ exit_code \notin {None, Some(0)}
       /\ stdout = << >>
       /\ saved = None
       /\ core_calls = << >>

\* the merge the claim describes: the command line's value where the user gave
\* one, the profile's value elsewhere
CliWins(a, p) ==
    [w |-> UnwrapOr(a.w, p.w),
     temp |-> UnwrapOr(a.temp, p.temp),
     yeast |-> UnwrapOr(a.yeast, p.yeast),
     hydration |-> UnwrapOr(a.hydration, p.hydration),
     salt_per_kg |-> UnwrapOr(a.salt_per_kg, p.salt_per_kg),
     ball_weight |-> UnwrapOr(a.ball_weight, p.ball_weight),
     balls |-> UnwrapOr(a.balls, p.balls),
     total_hours |-> UnwrapOr(a.total_hours, p.total_hours),
     fridge_hours |-> UnwrapOr(a.fridge_hours, p.fridge_hours),
     warmup_hours |-> UnwrapOr(a.warmup_hours, p.warmup_hours),
     fridge_factor |-> UnwrapOr(a.fridge_factor, p.fridge_factor),
     start |-> IF IsSome(a.start) THEN a.start ELSE p.start]

\* main has read and parsed the file of --profile and is past the merge
ProfileLoaded ==
    /\ IsSome(args)
    /\ IsSome(argv.profile)
    /\ profile_file.kind = "json"
    /\ pc \notin {"parse", "profile"}

\* C7: when a profile file is loaded, every field of the effective parameters is
\* the command line's value where one was supplied and the profile's value
\* elsewhere, and the run proceeds with that merged set.
C7_ProfileMergeCliWins ==
    ProfileLoaded
    => /\ ProfileFrom(args[1]) = CliWins(argv, profile_file.profile)
       /\ pc = "exit" => stderr[Len(stderr)] \in ValidationMessages \cup {MsgSaveProfile}

\* C8: in every run that passes the validations, the divisor of the flour
\* computation, 1 + hydration + salt_per_kg/1000 + yeast fraction, is a sum of
\* positive terms and is >= 1, and the flour mass is not negative.
C8_DivisorAtLeastOne ==
    pc \in {"print", "done"}
    => /\ RGe(ing_in[1].salt_per_kg, Whole(0))
       /\ RGe(divisor(ing_in[1]), Whole(1))
       /\ RGe(ing[1].flour_g, Whole(0))

\* the run passed main's validations and computed the timeline
PastTimeline == pc \in {"print", "done"}

\* what C11 says of a run that is past the timeline computation
TimelinePartitionsTotal ==
    LET a == args[1]
        t == tl[1]
    IN  /\ core_calls[3] = "timeline_with_fridge"
           => /\ RGt(a.fridge_hours, Whole(0))
              /\ RLt(RAdd(a.fridge_hours, a.warmup_hours), a.total_hours)
              /\ ~(t.bulk_h = Whole(0) /\ t.proof_h = Whole(0))
        /\ core_calls[3] # "timeline_with_fridge"
           => ~RGt(a.fridge_hours, Whole(0))
        /\ TimelineSum(t) = a.total_hours

\* C11: in every run that passes the validations and reaches the timeline
\* computation, timeline_with_fridge is called only with fridge_hours > 0 and
\* fridge_hours + warmup_hours < total_hours (timeline_no_fridge otherwise),
\* its degenerate case bulk_h = proof_h = 0 is not reached, and the durations
\* of the phases sum to the user's total_hours.
C11_CliTimelinePartitionsTotal == PastTimeline => TimelinePartitionsTotal

\* the same for the runs whose --total-hours is a number
C11_HoldsForNumbers ==
    PastTimeline /\ ~IsNaN(args[1].total_hours) => TimelinePartitionsTotal

\* a run with a fridge phase and a numeric total reaches the report
C11_FridgeRunReached ==
    /\ pc = "done"
    /\ core_calls[3] = "timeline_with_fridge"
    /\ ~IsNaN(args[1].total_hours)

====
